---- MODULE Spec2Model ----
(***************************************************************************)
(* scil_summarize_bundles_similarity_measures.py as a state machine.       *)
(*                                                                         *)
(* main() parses the command line, validates it, creates tmp_measures/ and *)
(* a multiprocessing pool, and maps load_data_tmp_saving_wrapper (all-pairs*)
(* mode only) and compute_all_measures over the pool.  Every pool worker   *)
(* runs load_data_tmp_saving, which probes and fills the on-disk cache of  *)
(* tmp_measures/.  The model keeps the file system (input bundles, cache   *)
(* files, output JSON), the main process' position and each worker's       *)
(* position inside load_data_tmp_saving.                                   *)
(*                                                                         *)
(* Abstractions.  A bundle file is identified by one number: -1 when the   *)
(* file does not exist, 0 when it holds no streamline, and otherwise the   *)
(* largest voxel count of its density / endpoints map (which also names    *)
(* its content).  A saved array is <<value>>, a streamline set is <<>>     *)
(* (empty) or <<c>> (the centroids of content c).  md5 of the path is      *)
(* taken to be injective, so a cache key is the path string itself.  The   *)
(* trk round trip of the centroids is taken at the precision of this       *)
(* abstraction (the centroid set read back is the set saved).              *)
(***************************************************************************)
EXTENDS Integers, Sequences, FiniteSets, TLC

(* ---------------------------------------------------------------- bounds *)

\* Longest in_bundles list given on the command line.
MaxBundles == 2

\* multiprocessing.cpu_count() of the machine the script runs on.
CpuCount == 2

(* ------------------------------------------------------- input alphabets *)

Paths == {"a.trk", "b.trk", "x.trk"}

\* Content of a bundle file: -1 no such file, 0 no streamline, c > 0 content.
MISSING == -1

EMPTY == 0

\* A bundle whose endpoints map holds a voxel count above the int16 range.
BigCount == 40000

Kinds == {"density", "endpoints", "centroids"}

Workers == 1..CpuCount

\* argparse leaves an option that was not given at None: <<>> here; <<v>> is
\* the option given with value v.
NotGiven == <<>>

Given(v) == <<v>>

(* --------------------------------------------------- array conversions   *)

\* ndarray.astype(np.float32): exact up to 2^24, then rounded to even steps.
AsFloat32(c) == IF c <= 16777216 THEN c ELSE c - (c % 2)

\* ndarray.astype(np.int16): two's complement wrap-around on 16 bits.
AsInt16(c) == ((c + 32768) % 65536) - 32768

(* ------------------------------------------------------- measure names   *)

VoxelMeasures ==
    << "bundle_adjacency_voxels", "dice_voxels", "w_dice_voxels",
       "volume_overlap", "volume_overreach", "dice_voxels_endpoints",
       "w_dice_voxels_endpoints", "volume_overlap_endpoints",
       "volume_overreach_endpoints", "density_correlation",
       "density_correlation_endpoints" >>

StreamlineDistanceMeasures == << "bundle_adjacency_streamlines" >>

StreamlineDiceMeasures ==
    << "dice_streamlines", "streamlines_count_overlap",
       "streamlines_count_overreach" >>

Range(s) == { s[i] : i \in DOMAIN s }

AllMeasures ==
    Range(VoxelMeasures) \cup Range(StreamlineDistanceMeasures)
        \cup Range(StreamlineDiceMeasures)

(* ---------------------------------------------------------------- state  *)

VARIABLES
    args,            \* the parsed command line (args.in_bundles is mutated)
    bundle_files,    \* disk: path -> content of the bundle file
    headers,         \* disk: path -> header of the reference linked to it
    out_json,        \* disk: the output file
    tmp_dir,         \* disk: tmp_measures/ exists
    cache,           \* disk: tmp_measures/<md5(path)>_<kind>
    pc,              \* main(): position
    nbr_cpu,         \* main(): nbr_cpu
    pool,            \* main(): worker processes of the pool
    comb_dict_keys,  \* main(): the list of pairs to compare
    phase,           \* which pool.map is running
    tasks,           \* the iterable of the running pool.map
    next_task,       \* first task of the iterable no worker has taken yet
    results,         \* the running pool.map's result list
    attempts,        \* how many times each task of the running map was run
    worker,          \* each pool worker's frame in the task it runs
    history          \* what this run did to the disk so far

vars == << args, bundle_files, headers, out_json, tmp_dir, cache, pc, nbr_cpu,
           pool, comb_dict_keys, phase, tasks, next_task, results, attempts,
           worker, history >>

disk == << bundle_files, headers >>

(* ---------------------------------------------------------- cache files  *)

\* A file of tmp_measures/: whether it exists, who has it open for writing,
\* the bundle content it was computed from and what it holds.
NoFile == [exists |-> FALSE, writers |-> {}, from |-> 0, data |-> <<>>]

FullFile(c, d) == [exists |-> TRUE, writers |-> {}, from |-> c, data |-> d]

EmptyCache == [p \in Paths |-> [k \in Kinds |-> NoFile]]

\* qbx_and_merge(...).centroids, or [] with disable_centroids.
Centroids(c, disable_centroids) == IF disable_centroids THEN <<>> ELSE <<c>>

\* What the compute branch of load_data_tmp_saving leaves in each file.
SavedData(k, c, disable_centroids) ==
    CASE k = "density" -> << AsFloat32(c) >>
      [] k = "endpoints" -> << AsInt16(c) >>
      [] OTHER -> Centroids(c, disable_centroids)

\* The cache entry an earlier run (content c, flag dc) kept for a path.
KeptEntry(c, dc) == [k \in Kinds |-> FullFile(c, SavedData(k, c, dc))]

(* ------------------------------------------------------ python helpers   *)

\* list.remove(x): drops the first occurrence of x only.
ListRemove(s, x) ==
    LET i == CHOOSE j \in 1..Len(s) :
                 s[j] = x /\ \A h \in 1..(j - 1) : s[h] # x
    IN  SubSeq(s, 1, i - 1) \o SubSeq(s, i + 1, Len(s))

\* itertools.product(left, [right]).
ProductWithOne(left, right) == [i \in 1..Len(left) |-> << left[i], right >>]

\* itertools.combinations(s, r=2): positions i < j in lexicographic order.
RECURSIVE CombinationsFrom(_, _)
CombinationsFrom(s, i) ==
    IF i >= Len(s) THEN << >>
    ELSE [j \in 1..(Len(s) - i) |-> << s[i], s[i + j] >>]
             \o CombinationsFrom(s, i + 1)

Combinations(s) == CombinationsFrom(s, 1)

(* ---------------------------------------------------------- task results *)

NoData ==
    [loaded |-> FALSE, hit |-> FALSE, torn |-> FALSE, path |-> "",
     from |-> << >>, density |-> << >>, endpoints |-> << >>,
     centroids |-> << >>]

Pending ==
    [kind |-> "pending", keys |-> {}, error |-> "", data_1 |-> NoData,
     data_2 |-> NoData]

\* The task returned None.
ReturnedNone == [Pending EXCEPT !.kind = "none"]

\* The task raised.
Raised(e, d1, d2) ==
    [Pending EXCEPT !.kind = "raise", !.error = e, !.data_1 = d1,
                    !.data_2 = d2]

\* The task returned dict(zip(measures_name, measures)).
ReturnedDict(names, d1, d2) ==
    [Pending EXCEPT !.kind = "dict", !.keys = Range(names), !.data_1 = d1,
                    !.data_2 = d2]

Idle ==
    [pc |-> "idle", task |-> 0, which |-> 0, path |-> "", init_only |-> FALSE,
     data_1 |-> NoData, cur |-> NoData]

(* ------------------------------------------------------------- scenarios *)

BundleListsOver(S) == UNION { [1..n -> S] : n \in 1..MaxBundles }

\* The lists in which the paths first occur in the order a.trk, b.trk, x.trk:
\* every other list is one of these with the files renamed.
FirstOccurrence(l, p) ==
    IF p \in Range(l) THEN CHOOSE i \in DOMAIN l :
                               l[i] = p /\ \A j \in 1..(i - 1) : l[j] # p
    ELSE Len(l) + 1

BundleLists ==
    { l \in BundleListsOver(Paths) :
        /\ FirstOccurrence(l, "a.trk") <= FirstOccurrence(l, "b.trk")
        /\ FirstOccurrence(l, "b.trk") <= FirstOccurrence(l, "x.trk") }

ProcessesChoices == {NotGiven} \cup { Given(n) : n \in (-1)..(CpuCount + 1) }

DefaultArgs ==
    [in_bundles |-> << "a.trk", "b.trk" >>, single_compare |-> NotGiven,
     processes |-> NotGiven, keep_tmp |-> FALSE, streamline_dice |-> FALSE,
     disable_streamline_distance |-> FALSE, overwrite |-> FALSE]

DefaultDisk ==
    [files |-> [p \in Paths |-> 1], headers |-> [p \in Paths |-> 1],
     kept |-> EmptyCache, tmp |-> FALSE, out |-> FALSE]

\* The command-line options of the run, on a plain disk.
CliScenarios ==
    { [a |-> [DefaultArgs EXCEPT !.processes = n, !.keep_tmp = k,
                                 !.overwrite = f,
                                 !.streamline_dice = sd,
                                 !.disable_streamline_distance = dsd],
       d |-> [DefaultDisk EXCEPT !.out = o]] :
        n \in ProcessesChoices, k \in BOOLEAN, f \in BOOLEAN, o \in BOOLEAN,
        sd \in BOOLEAN, dsd \in BOOLEAN }

\* Every list of bundles (up to renaming the files, which here all hold the
\* same) with every --single_compare, run on all CPUs.
ListScenarios ==
    { [a |-> [DefaultArgs EXCEPT !.in_bundles = l, !.single_compare = x],
       d |-> DefaultDisk] :
        l \in BundleLists, x \in {NotGiven} \cup { Given(p) : p \in Paths } }

\* Missing and empty bundles and incompatible headers, compared with each
\* other or with x.trk, run on all CPUs.  Only the files the command line
\* names are varied: the script looks at no other.
DiskChoices(named) ==
    { d \in [files : [Paths -> {MISSING, EMPTY, 1}],
             headers : { g \in [Paths -> {1, 2}] : g["a.trk"] = 1 }] :
        \A p \in Paths \ named : d.files[p] = 1 /\ d.headers[p] = 1 }

DiskScenarios ==
    UNION { { [a |-> [DefaultArgs EXCEPT !.in_bundles = l,
                                         !.single_compare = x],
               d |-> [DefaultDisk EXCEPT !.files = c.files,
                                         !.headers = c.headers]] :
                c \in DiskChoices(Range(l) \cup Range(x)) } :
            l \in { m \in BundleLists : "x.trk" \notin Range(m) },
            x \in {NotGiven, Given("x.trk")} }

\* A tmp_measures/ an earlier run kept (--keep_tmp), computed from content c
\* with --disable_streamline_distance dc, under every flag of this run.
KeptScenarios ==
    { [a |-> [DefaultArgs EXCEPT !.keep_tmp = k,
                                 !.disable_streamline_distance = dsd,
                                 !.processes = Given(1)],
       d |-> [DefaultDisk EXCEPT
                 !.files = [p \in Paths |-> c],
                 !.tmp = TRUE,
                 !.kept = [p \in Paths |->
                              IF p \in e THEN KeptEntry(c0, dc)
                              ELSE EmptyCache[p]]]] :
        k \in BOOLEAN, dsd \in BOOLEAN, dc \in BOOLEAN,
        c \in {1, BigCount}, c0 \in {1, 2, BigCount},
        e \in SUBSET {"a.trk", "b.trk"} }

Scenarios ==
    CliScenarios \cup ListScenarios \cup DiskScenarios \cup KeptScenarios

(* ----------------------------------------------------------------- Init  *)

Init ==
    \E s \in Scenarios :
        /\ args = s.a
        /\ bundle_files = s.d.files
        /\ headers = s.d.headers
        /\ out_json = [exists |-> s.d.out, keys |-> {},
                       lists |-> [m \in AllMeasures |-> << >>]]
        /\ tmp_dir = s.d.tmp
        /\ cache = s.d.kept
        /\ pc = "start"
        /\ nbr_cpu = 0
        /\ pool = {}
        /\ comb_dict_keys = << >>
        /\ phase = "none"
        /\ tasks = << >>
        /\ next_task = 1
        /\ results = << >>
        /\ attempts = << >>
        /\ worker = [w \in Workers |-> Idle]
        /\ history = [tmp_before |-> s.d.tmp, mkdir |-> FALSE,
                      json_written |-> FALSE, rmtree |-> FALSE,
                      pool_created |-> FALSE, writes |-> {},
                      in_bundles |-> s.a.in_bundles]

(* ------------------------------------------------- scilpy.io.utils       *)

\* assert_inputs_exist(parser, args.in_bundles): every input is a file.
assert_inputs_exist(bundles) ==
    \A i \in 1..Len(bundles) : bundle_files[bundles[i]] # MISSING

\* assert_outputs_exist(parser, args, [args.out_json]): the output is not
\* there yet, or -f allows overwriting it.
assert_outputs_exist == ~out_json.exists \/ args.overwrite

\* link_bundles_and_reference(parser, args, bundles_list): one (bundle,
\* reference) tuple per bundle, in order.  A tuple is named by its bundle
\* path; headers[path] is the header is_header_compatible reads from its
\* reference.
link_bundles_and_reference(bundles_list) == bundles_list

(* ------------------------------------------------------------- main()    *)

\* pool.map(func, iterable) is entered: the tasks go to the pool's queue.
StartMap(which, iterable) ==
    /\ phase' = which
    /\ tasks' = iterable
    /\ next_task' = 1
    /\ results' = [i \in 1..Len(iterable) |-> Pending]
    /\ attempts' = [i \in 1..Len(iterable) |-> 0]

\* pool.map returns (or raises) once every task of the iterable has ended.
MapEnded == \A i \in 1..Len(results) : results[i].kind # "pending"

\* Mutation of MapRaises: a task's exception is swallowed by the pool.
MapRaises_Never == FALSE

\* pool.map re-raises the exception of a task that raised.
MapRaises == \E i \in 1..Len(results) : results[i].kind = "raise"

\* nbr_cpu = args.processes if args.processes else multiprocessing.cpu_count()
NbrCpu(processes) ==
    IF processes # NotGiven /\ processes[1] # 0 THEN processes[1]
    ELSE CpuCount

\* Lines 262-263: the inputs exist and the output may be written.
AssertInputsOutputs ==
    /\ pc = "start"
    /\ pc' = IF assert_inputs_exist(args.in_bundles) /\ assert_outputs_exist
             THEN "validate" ELSE "usage_error"
    /\ UNCHANGED << args, disk, out_json, tmp_dir, cache, nbr_cpu, pool,
                    comb_dict_keys, phase, tasks, next_task, results,
                    attempts, worker, history >>

\* Lines 265-270: the number of processes.
ValidateProcesses ==
    /\ pc = "validate"
    /\ nbr_cpu' = NbrCpu(args.processes)
    /\ pc' = IF nbr_cpu' <= 0 THEN "usage_error"
             ELSE IF nbr_cpu' > CpuCount THEN "usage_error"
             ELSE "setup"
    /\ UNCHANGED << args, disk, out_json, tmp_dir, cache, pool,
                    comb_dict_keys, phase, tasks, next_task, results,
                    attempts, worker, history >>

\* Lines 272-275: tmp_measures/ and the pool.
MakeTmpAndPool ==
    /\ pc = "setup"
    /\ tmp_dir' = TRUE
    /\ pool' = 1..nbr_cpu
    /\ history' = [history EXCEPT !.mkdir = ~tmp_dir, !.pool_created = TRUE]
    /\ pc' = "list"
    /\ UNCHANGED << args, disk, out_json, cache, nbr_cpu, comb_dict_keys,
                    phase, tasks, next_task, results, attempts, worker >>

\* Lines 277-287: --single_compare.
BuildSingleCompare ==
    /\ pc = "list"
    /\ args.single_compare # NotGiven
    /\ LET x == args.single_compare[1]
           in_bundles == IF x \in Range(args.in_bundles)
                         THEN ListRemove(args.in_bundles, x)
                         ELSE args.in_bundles
           bundles_list == in_bundles \o << x >>
           extended == link_bundles_and_reference(bundles_list)
           single == extended[Len(extended)]
           popped == SubSeq(extended, 1, Len(extended) - 1)
       IN  /\ args' = [args EXCEPT !.in_bundles = in_bundles]
           /\ comb_dict_keys' = ProductWithOne(popped, single)
    /\ pc' = "compare"
    /\ UNCHANGED << disk, out_json, tmp_dir, cache, nbr_cpu, pool, phase,
                    tasks, next_task, results, attempts, worker, history >>

\* Mutation of PrecomputeAllPairs: the pre-computation is left out.
PrecomputeAllPairs_Skipped ==
    /\ pc = "list"
    /\ args.single_compare = NotGiven
    /\ StartMap("init", << >>)
    /\ pc' = "map_init"
    /\ UNCHANGED << args, disk, out_json, tmp_dir, cache, nbr_cpu, pool,
                    comb_dict_keys, worker, history >>

\* Lines 289-298: all pairs; the first pool.map is entered.
PrecomputeAllPairs ==
    /\ pc = "list"
    /\ args.single_compare = NotGiven
    /\ LET tuples == link_bundles_and_reference(args.in_bundles)
       IN  StartMap("init", [i \in 1..Len(tuples) |-> << tuples[i] >>])
    /\ pc' = "map_init"
    /\ UNCHANGED << args, disk, out_json, tmp_dir, cache, nbr_cpu, pool,
                    comb_dict_keys, worker, history >>

\* Lines 295-301: the first pool.map returns; the pairs are listed.
FinishPrecompute ==
    /\ pc = "map_init"
    /\ MapEnded
    /\ IF MapRaises
       THEN pc' = "failed" /\ UNCHANGED comb_dict_keys
       ELSE /\ pc' = "compare"
            /\ comb_dict_keys' =
                   Combinations(link_bundles_and_reference(args.in_bundles))
    /\ UNCHANGED << args, disk, out_json, tmp_dir, cache, nbr_cpu, pool,
                    phase, tasks, next_task, results, attempts, worker,
                    history >>

\* Lines 303-306: the second pool.map is entered.
StartCompare ==
    /\ pc = "compare"
    /\ StartMap("compare", comb_dict_keys)
    /\ pc' = "map_compare"
    /\ UNCHANGED << args, disk, out_json, tmp_dir, cache, nbr_cpu, pool,
                    comb_dict_keys, worker, history >>

\* Lines 303-308: the second pool.map returns or raises; close and join.
FinishCompare ==
    /\ pc = "map_compare"
    /\ MapEnded
    /\ IF MapRaises
       THEN pc' = "failed" /\ UNCHANGED pool
       ELSE pc' = "collect" /\ pool' = {}
    /\ UNCHANGED << args, disk, out_json, tmp_dir, cache, nbr_cpu,
                    comb_dict_keys, phase, tasks, next_task, results,
                    attempts, worker, history >>

\* Lines 310-319: the loop over all_measures_dict, from its i-th element on.
\* The value a pair contributes to a measure is written as the pair's index.
RECURSIVE Collect(_, _, _)
Collect(all_measures_dict, i, output) ==
    IF i > Len(all_measures_dict) THEN output
    ELSE LET measure_dict == all_measures_dict[i]
         IN  IF measure_dict.kind = "dict"
             THEN Collect(all_measures_dict, i + 1,
                      [keys |-> output.keys \cup measure_dict.keys,
                       lists |-> [m \in AllMeasures |->
                                     IF m \in measure_dict.keys
                                     THEN Append(output.lists[m], i)
                                     ELSE output.lists[m]]])
             ELSE Collect(all_measures_dict, i + 1, output)

output_measures_dict ==
    Collect(results, 1, [keys |-> {}, lists |-> [m \in AllMeasures |-> << >>]])

\* Lines 310-322: the output dictionary is built and dumped.
WriteJson ==
    /\ pc = "collect"
    /\ out_json' = [exists |-> TRUE, keys |-> output_measures_dict.keys,
                    lists |-> output_measures_dict.lists]
    /\ history' = [history EXCEPT !.json_written = TRUE]
    /\ pc' = "written"
    /\ UNCHANGED << args, disk, tmp_dir, cache, nbr_cpu, pool,
                    comb_dict_keys, phase, tasks, next_task, results,
                    attempts, worker >>

\* Mutation of RemoveTmp: --keep_tmp is not looked at.
RemoveTmp_Always ==
    /\ pc = "written"
    /\ tmp_dir' = FALSE
    /\ cache' = EmptyCache
    /\ history' = [history EXCEPT !.rmtree = TRUE]
    /\ pc' = "done"
    /\ UNCHANGED << args, disk, out_json, nbr_cpu, pool, comb_dict_keys,
                    phase, tasks, next_task, results, attempts, worker >>

\* Lines 324-325: the tmp folder.
RemoveTmp ==
    /\ pc = "written"
    /\ IF ~args.keep_tmp
       THEN /\ tmp_dir' = FALSE
            /\ cache' = EmptyCache
            /\ history' = [history EXCEPT !.rmtree = TRUE]
       ELSE UNCHANGED << tmp_dir, cache, history >>
    /\ pc' = "done"
    /\ UNCHANGED << args, disk, out_json, nbr_cpu, pool, comb_dict_keys,
                    phase, tasks, next_task, results, attempts, worker >>

(* ------------------------------------------------ compute_all_measures   *)

\* Mutation of AdjacencyStreamlinesAssigned: the elif branch is missing.
AdjacencyStreamlinesAssigned_OnlyWithDice(streamline_dice, disable_streamline_distance) ==
    streamline_dice /\ ~disable_streamline_distance

\* Lines 190-201: whether bundle_adjacency_streamlines gets assigned.
AdjacencyStreamlinesAssigned(streamline_dice, disable_streamline_distance) ==
    IF streamline_dice /\ ~disable_streamline_distance THEN TRUE
    ELSE IF ~disable_streamline_distance THEN TRUE
    ELSE FALSE

\* Lines 237-239: whether bundle_adjacency_streamlines is read.
AdjacencyStreamlinesRead(disable_streamline_distance) ==
    ~disable_streamline_distance

\* Lines 216-253: measures_name.
MeasuresName(streamline_dice, disable_streamline_distance) ==
    VoxelMeasures
        \o (IF ~disable_streamline_distance
            THEN StreamlineDistanceMeasures ELSE << >>)
        \o (IF streamline_dice THEN StreamlineDiceMeasures ELSE << >>)

\* Lines 170-255: the measures of a pair whose two bundles were loaded.
Measures(d1, d2) ==
    LET sd == args.streamline_dice
        dsd == args.disable_streamline_distance
    IN  IF AdjacencyStreamlinesRead(dsd)
           /\ ~AdjacencyStreamlinesAssigned(sd, dsd)
        THEN Raised("UnboundLocalError", d1, d2)
        ELSE ReturnedDict(MeasuresName(sd, dsd), d1, d2)

(* ------------------------------------------------ load_data_tmp_saving   *)

\* A step of a task: the worker's next frame and the task's result so far.
Continue(frame) == [frame |-> frame, result |-> Pending]

Done(result) == [frame |-> Idle, result |-> result]

\* Mutation of Loadable: the test for an empty bundle is missing.
Loadable_IfFile(p) == bundle_files[p] # MISSING

\* Lines 80-100: the bundle is a file and holds streamlines.
Loadable(p) == bundle_files[p] # MISSING /\ bundle_files[p] # EMPTY

\* Lines 76-100: load_data_tmp_saving is entered for path p.
EnterLoad(frame, p, which) ==
    IF ~Loadable(p) THEN Done(ReturnedNone)
    ELSE Continue([frame EXCEPT !.pc = "probe", !.path = p, !.which = which,
                                !.cur = NoData])

\* Lines 148-154 and 70-73: a task of the running map is entered.
EnterTask(i) ==
    LET frame == [Idle EXCEPT !.task = i, !.init_only = (phase = "init")]
    IN  IF phase = "init" THEN EnterLoad(frame, tasks[i][1], 1)
        ELSE IF headers[tasks[i][1]] # headers[tasks[i][2]]
        THEN Done(Raised("ValueError", NoData, NoData))
        ELSE EnterLoad(frame, tasks[i][1], 1)

\* Lines 138, 155-168 and 73: load_data_tmp_saving returns its tuple.
ReturnLoad(frame, data) ==
    IF frame.init_only THEN Done(ReturnedNone)
    ELSE IF frame.which = 1
    THEN EnterLoad([frame EXCEPT !.data_1 = data], tasks[frame.task][2], 2)
    ELSE Done(Measures(frame.data_1, data))

\* The worker's step is recorded: its frame and the task's result.
Step(w, outcome) ==
    /\ worker' = [worker EXCEPT ![w] = outcome.frame]
    /\ results' = IF outcome.result.kind = "pending" THEN results
                  ELSE [results EXCEPT ![worker[w].task] = outcome.result]

\* A free worker of the pool takes the next task of the running map.  The
\* workers are interchangeable processes: of the free ones the lowest-numbered
\* takes it.
TakeTask(w) ==
    /\ pc \in {"map_init", "map_compare"}
    /\ w \in pool
    /\ worker[w].pc = "idle"
    /\ \A v \in pool : worker[v].pc = "idle" => w <= v
    /\ next_task <= Len(tasks)
    /\ LET outcome == EnterTask(next_task)
       IN  /\ worker' = [worker EXCEPT ![w] = outcome.frame]
           /\ results' = [results EXCEPT ![next_task] = outcome.result]
    /\ attempts' = [attempts EXCEPT ![next_task] = @ + 1]
    /\ next_task' = next_task + 1
    /\ UNCHANGED << args, disk, out_json, tmp_dir, cache, pc, nbr_cpu, pool,
                    comb_dict_keys, phase, tasks, history >>

\* Lines 102-104: the three cache files of the path are there.
CacheHit(p) == \A k \in Kinds : cache[p][k].exists

\* Lines 115-125: the compute branch's density, endpoints and centroids.
Computed(p, c, disable_centroids) ==
    [loaded |-> TRUE, hit |-> FALSE, torn |-> FALSE, path |-> p,
     from |-> << c >>, density |-> << c >>, endpoints |-> << c >>,
     centroids |-> Centroids(c, disable_centroids)]

\* Lines 102-125: the cache is probed; on a miss the data is computed.
Probe(w) ==
    /\ worker[w].pc = "probe"
    /\ LET frame == worker[w]
           p == frame.path
       IN  IF CacheHit(p)
           THEN IF frame.init_only THEN Step(w, Done(ReturnedNone))
                ELSE Step(w, Continue([frame EXCEPT
                         !.pc = "load_density",
                         !.cur = [NoData EXCEPT !.hit = TRUE, !.path = p]]))
           ELSE Step(w, Continue([frame EXCEPT
                         !.pc = "open_density",
                         !.cur = Computed(p, bundle_files[p],
                                     args.disable_streamline_distance)]))
    /\ UNCHANGED << args, disk, out_json, tmp_dir, cache, pc, nbr_cpu, pool,
                    comb_dict_keys, phase, tasks, next_task, attempts,
                    history >>

NextKind(k) ==
    CASE k = "density" -> "endpoints"
      [] k = "endpoints" -> "centroids"
      [] OTHER -> "none"

\* data with what was read for kind k.
WithRead(data, k, from, value, torn) ==
    LET d == [data EXCEPT !.from = Append(@, from), !.torn = @ \/ torn]
    IN  CASE k = "density" -> [d EXCEPT !.density = value]
          [] k = "endpoints" -> [d EXCEPT !.endpoints = value]
          [] OTHER -> [d EXCEPT !.centroids = value, !.loaded = TRUE]

\* The worker goes on after the file of kind k, its data being data.
AfterFile(frame, k, prefix, data) ==
    IF NextKind(k) = "none" THEN ReturnLoad(frame, data)
    ELSE Continue([frame EXCEPT !.pc = prefix \o NextKind(k), !.cur = data])

\* Lines 108-113: a cache file no one is writing is read.
LoadFile(w, k) ==
    /\ worker[w].pc = "load_" \o k
    /\ LET frame == worker[w]
           file == cache[frame.path][k]
       IN  /\ file.writers = {}
           /\ Step(w, AfterFile(frame, k, "load_",
                        WithRead(frame.cur, k, file.from, file.data, FALSE)))
    /\ UNCHANGED << args, disk, out_json, tmp_dir, cache, pc, nbr_cpu, pool,
                    comb_dict_keys, phase, tasks, next_task, attempts,
                    history >>

\* Lines 108-113: a cache file another worker has not finished writing is
\* read, and the library raises on the truncated file.
LoadTornRaises(w, k) ==
    /\ worker[w].pc = "load_" \o k
    /\ LET frame == worker[w]
           file == cache[frame.path][k]
       IN  /\ file.writers # {}
           /\ Step(w, Done(Raised("torn", frame.data_1,
                        WithRead(frame.cur, k, file.from, << >>, TRUE))))
    /\ UNCHANGED << args, disk, out_json, tmp_dir, cache, pc, nbr_cpu, pool,
                    comb_dict_keys, phase, tasks, next_task, attempts,
                    history >>

\* Lines 108-113: a cache file another worker has not finished writing is
\* read, and the library returns what is on disk so far.
LoadTornReturns(w, k) ==
    /\ worker[w].pc = "load_" \o k
    /\ LET frame == worker[w]
           file == cache[frame.path][k]
       IN  /\ file.writers # {}
           /\ Step(w, AfterFile(frame, k, "load_",
                        WithRead(frame.cur, k, file.from, << >>, TRUE)))
    /\ UNCHANGED << args, disk, out_json, tmp_dir, cache, pc, nbr_cpu, pool,
                    comb_dict_keys, phase, tasks, next_task, attempts,
                    history >>

\* Lines 128-136: nib.save / save_tractogram creates (or truncates) the file.
OpenFile(w, k) ==
    /\ worker[w].pc = "open_" \o k
    /\ LET frame == worker[w]
           p == frame.path
       IN  /\ cache' = [cache EXCEPT ![p][k] =
                           [exists |-> TRUE, writers |-> @.writers \cup {w},
                            from |-> bundle_files[p], data |-> << >>]]
           /\ worker' = [worker EXCEPT ![w].pc = "write_" \o k]
           /\ history' = [history EXCEPT !.writes = @ \cup {<< phase, p, k >>}]
    /\ UNCHANGED << args, disk, out_json, tmp_dir, pc, nbr_cpu, pool,
                    comb_dict_keys, phase, tasks, next_task, results,
                    attempts >>

\* Lines 128-136: the file is written out and closed.
CloseFile(w, k) ==
    /\ worker[w].pc = "write_" \o k
    /\ LET frame == worker[w]
           p == frame.path
       IN  /\ cache' = [cache EXCEPT ![p][k] =
                           [exists |-> TRUE, writers |-> @.writers \ {w},
                            from |-> bundle_files[p],
                            data |-> SavedData(k, bundle_files[p],
                                        args.disable_streamline_distance)]]
           /\ Step(w, AfterFile(frame, k, "open_", frame.cur))
    /\ UNCHANGED << args, disk, out_json, tmp_dir, pc, nbr_cpu, pool,
                    comb_dict_keys, phase, tasks, next_task, attempts,
                    history >>

(* ------------------------------------------------------------ the system *)

Next ==
    \/ AssertInputsOutputs
    \/ ValidateProcesses
    \/ MakeTmpAndPool
    \/ BuildSingleCompare
    \/ PrecomputeAllPairs
    \/ FinishPrecompute
    \/ StartCompare
    \/ FinishCompare
    \/ WriteJson
    \/ RemoveTmp
    \/ \E w \in Workers : TakeTask(w)
    \/ \E w \in Workers : Probe(w)
    \/ \E w \in Workers, k \in Kinds : LoadFile(w, k)
    \/ \E w \in Workers, k \in Kinds : LoadTornRaises(w, k)
    \/ \E w \in Workers, k \in Kinds : LoadTornReturns(w, k)
    \/ \E w \in Workers, k \in Kinds : OpenFile(w, k)
    \/ \E w \in Workers, k \in Kinds : CloseFile(w, k)

Spec == Init /\ [][Next]_vars

(* ================================================================ claims *)

\* Every (density, endpoints, centroids) tuple load_data_tmp_saving is
\* building or has returned: in a worker's frame or in a task's result.
LoadedData ==
    { worker[w].cur : w \in Workers } \cup { worker[w].data_1 : w \in Workers }
        \cup { results[i].data_1 : i \in DOMAIN results }
        \cup { results[i].data_2 : i \in DOMAIN results }

\* The three arrays of a tuple.
Triple(data) == << data.density, data.endpoints, data.centroids >>

\* What one sequential computation of the path returns in this run.
Sequential(p) ==
    Triple(Computed(p, bundle_files[p], args.disable_streamline_distance))

\* The bundles given on the command line are pairwise different files.
DistinctInputs ==
    /\ \A i, j \in DOMAIN history.in_bundles :
           i # j => history.in_bundles[i] # history.in_bundles[j]
    /\ args.single_compare # NotGiven
           => args.single_compare[1] \notin Range(history.in_bundles)

(* C1: the race between workers that compute the same cache entry is       *)
(* benign: no worker takes the cache-hit branch and loads a cache file     *)
(* another worker has created but not finished writing, and every worker   *)
(* returns the density, endpoints density and centroids a sequential       *)
(* computation returns.  (Stated for a run that starts without             *)
(* tmp_measures/ and is given pairwise different bundles, so that only     *)
(* this run's workers fill the cache and only the pool makes two of them   *)
(* meet on a path.)                                                        *)
C1_RaceIsBenign ==
    (~history.tmp_before /\ DistinctInputs) =>
        \A data \in LoadedData :
            /\ ~data.torn
            /\ data.loaded => Triple(data) = Sequential(data.path)

(* C2: the cache is keyed by the content of the input file: a cache hit is *)
(* only served to an input whose content is the content that produced the *)
(* entry.                                                                  *)
C2_KeyedByContent ==
    \A data \in LoadedData :
        data.hit =>
            \A i \in DOMAIN data.from : data.from[i] = bundle_files[data.path]

(* C3: the cache memoizes load_data_tmp_saving: a call that takes the      *)
(* cache-hit branch returns the (density, endpoints density, centroids)    *)
(* the compute branch returns for the same arguments, whatever earlier     *)
(* calls (of this run or of a run whose tmp_measures/ was kept, with       *)
(* either value of disable_centroids) filled the cache.  (Stated for       *)
(* entries computed from the file's present content and read whole.)       *)
C3_HitEqualsCompute ==
    \A data \in LoadedData :
        ( /\ data.hit
          /\ data.loaded
          /\ ~data.torn
          /\ \A i \in DOMAIN data.from :
                 data.from[i] = bundle_files[data.path] )
            => Triple(data) = Sequential(data.path)

(* ------------------------------------------------------------------- C4  *)

AllPairs == args.single_compare = NotGiven

HoldsStreamlines(p) == bundle_files[p] > 0

Occurrences(p) ==
    Cardinality({ i \in DOMAIN history.in_bundles : history.in_bundles[i] = p })

\* The first pool.map is over and tmp_measures/ has not been removed yet.
PrecomputeOver == pc \in {"compare", "map_compare", "collect", "written"}

\* The parts of C4 that do not speak of simultaneous writers.
PrecomputeThenReadOnly ==
    /\ \A w \in Workers :
           /\ (pc = "map_init" /\ worker[w].pc # "idle") => worker[w].init_only
           /\ (pc # "map_init") => ~worker[w].init_only
    /\ PrecomputeOver =>
           \A p \in Range(history.in_bundles) :
               HoldsStreamlines(p) =>
                   \A k \in Kinds :
                       cache[p][k].exists /\ cache[p][k].writers = {}
    /\ \A e \in history.writes : e[1] # "compare"

(* C4 as claimed: in all-pairs mode the first pool.map finishes before any *)
(* comparison starts, after it every input bundle that exists and is       *)
(* non-empty has its three cache files, no cache file is ever written by   *)
(* two workers at the same time, and no worker of the comparison phase     *)
(* writes a cache file.                                                    *)
C4_NoConflict ==
    AllPairs =>
        /\ PrecomputeThenReadOnly
        /\ \A p \in Paths, k \in Kinds : Cardinality(cache[p][k].writers) <= 1

(* C4 as amended: the same, except that two workers of the first pool.map  *)
(* may write the cache files of a bundle at the same time when (and only   *)
(* when) its path is listed more than once in in_bundles.                  *)
C4_NoConflictUnlessListedTwice ==
    AllPairs =>
        /\ PrecomputeThenReadOnly
        /\ \A p \in Paths, k \in Kinds :
               Cardinality(cache[p][k].writers) >= 2
                   => (Occurrences(p) >= 2 /\ pc = "map_init")

\* Two workers compare pairs from cache files the first pool.map wrote.
C4_Witness ==
    /\ AllPairs
    /\ pc = "map_compare"
    /\ Cardinality(pool) >= 2
    /\ Cardinality({ e[2] : e \in history.writes }) >= 2
    /\ \E w \in Workers : worker[w].pc = "load_centroids" /\ worker[w].which = 2

(* ------------------------------------------------------------------- C5  *)

(* C5: there are no partial-failure semantics: if one pairwise comparison  *)
(* raises, the exception propagates to script failure, the output JSON is  *)
(* never written (not even with the pairs that succeeded), and no pair is  *)
(* run a second time.                                                      *)
C5_NoPartialFailure ==
    /\ ( /\ phase = "compare"
         /\ \E i \in DOMAIN results : results[i].kind = "raise" )
           => ( /\ pc \in {"map_compare", "failed"}
                /\ ~history.json_written
                /\ out_json.keys = {} )
    /\ pc = "failed" => ~history.json_written
    /\ \A i \in DOMAIN attempts : attempts[i] <= 1

\* The script has failed on a pair with incompatible headers although
\* another pair had produced its measures.
C5_Witness ==
    /\ pc = "failed"
    /\ \E i \in DOMAIN results :
           results[i].kind = "raise" /\ results[i].error = "ValueError"
    /\ \E i \in DOMAIN results : results[i].kind = "dict"

(* ------------------------------------------------------------------- C6  *)

(* C6: --processes is validated before any side effect: every value <= 0   *)
(* (zero included) and every value above the CPU count ends in a usage     *)
(* error with neither tmp_measures/ nor the pool created; only without     *)
(* --processes does the script use all CPUs (or when asked for them all).  *)
C6_ProcessesValidated ==
    /\ ( /\ args.processes # NotGiven
         /\ (args.processes[1] <= 0 \/ args.processes[1] > CpuCount) )
           => ( /\ pc \in {"start", "validate", "usage_error"}
                /\ ~history.mkdir
                /\ ~history.pool_created )
    /\ ( history.pool_created /\ nbr_cpu = CpuCount )
           => args.processes \in {NotGiven, Given(CpuCount)}

(* ------------------------------------------------------------------- C7  *)

\* The pair of task i has a bundle that is missing or holds no streamline.
PairUnloadable(i) ==
    ~HoldsStreamlines(tasks[i][1]) \/ ~HoldsStreamlines(tasks[i][2])

\* The indices of the pairs both of whose bundles hold streamlines.
RECURSIVE LoadablePairsFrom(_)
LoadablePairsFrom(i) ==
    IF i > Len(tasks) THEN << >>
    ELSE (IF PairUnloadable(i) THEN << >> ELSE << i >>)
             \o LoadablePairsFrom(i + 1)

C8_TmpRemovedUnlessKept ==
    /\ pc = "done" => (tmp_dir <=> args.keep_tmp)
    /\ (pc = "done" /\ args.keep_tmp) =>
           \A i \in DOMAIN results :
               results[i].kind = "dict" =>
                   \A j \in {1, 2}, k \in Kinds :
                       /\ cache[tasks[i][j]][k].exists
                       /\ cache[tasks[i][j]][k].writers = {}
    /\ history.rmtree => (history.json_written /\ out_json.exists)
    /\ pc \in {"list", "map_init", "compare", "map_compare", "collect",
               "written", "failed"} => tmp_dir

\* The run ended with tmp_measures/ removed after a pair was measured.
C8_Witness ==
    /\ pc = "done"
    /\ history.rmtree
    /\ ~tmp_dir
    /\ \E i \in DOMAIN results : results[i].kind = "dict"

(* ------------------------------------------------------------------- C9  *)

ElevenVoxelMeasures ==
    { "bundle_adjacency_voxels", "dice_voxels", "w_dice_voxels",
      "volume_overlap", "volume_overreach", "dice_voxels_endpoints",
      "w_dice_voxels_endpoints", "volume_overlap_endpoints",
      "volume_overreach_endpoints", "density_correlation",
      "density_correlation_endpoints" }

(* C9: the measures reported for a pair depend only on the two flags: the  *)
(* eleven voxel measures always, bundle_adjacency_streamlines iff          *)
(* --disable_streamline_distance is not given, the three streamline-dice   *)
(* measures iff --streamline_dice is given; and no combination of the      *)
(* flags makes compute_all_measures read a measure it did not compute.     *)
C9_MeasureSet ==
    \A i \in DOMAIN results :
        /\ results[i].error # "UnboundLocalError"
        /\ results[i].kind = "dict" =>
               /\ Cardinality(ElevenVoxelMeasures) = 11
               /\ ElevenVoxelMeasures \subseteq results[i].keys
               /\ "bundle_adjacency_streamlines" \in results[i].keys
                      <=> ~args.disable_streamline_distance
               /\ \A m \in {"dice_streamlines", "streamlines_count_overlap",
                            "streamlines_count_overreach"} :
                      m \in results[i].keys <=> args.streamline_dice
               /\ Cardinality(results[i].keys) =
                      11 + (IF args.disable_streamline_distance THEN 0 ELSE 1)
                         + (IF args.streamline_dice THEN 3 ELSE 0)

\* A pair was measured with both flags given.
C9_Witness ==
    /\ args.streamline_dice
    /\ args.disable_streamline_distance
    /\ \E i \in DOMAIN results : results[i].kind = "dict"

(* ------------------------------------------------------------------ C10  *)

\* The elements of s other than x, in order.
RECURSIVE Without(_, _)
Without(s, x) ==
    IF s = << >> THEN << >>
    ELSE (IF Head(s) = x THEN << >> ELSE << Head(s) >>) \o Without(Tail(s), x)

\* The list of pairs has been built.
PairsListed == pc \in {"compare", "map_compare", "collect", "written", "done"}

(* C10: with --single_compare X the comparisons are exactly one pair       *)
(* (b, X) for each input bundle b other than X, in input order, and X is   *)
(* never compared with itself however many times it is listed; without     *)
(* --single_compare they are the n*(n-1)/2 pairs of the n input bundles.   *)
C10_ComparisonList ==
    PairsListed =>
        IF args.single_compare # NotGiven
        THEN LET x == args.single_compare[1]
                 others == Without(history.in_bundles, x)
             IN  comb_dict_keys = [i \in 1..Len(others) |-> << others[i], x >>]
        ELSE LET l == history.in_bundles
                 n == Len(l)
             IN  /\ 2 * Len(comb_dict_keys) = n * (n - 1)
                 /\ \A i, j \in 1..n :
                        i < j => \E h \in DOMAIN comb_dict_keys :
                                     comb_dict_keys[h] = << l[i], l[j] >>

(* ------------------------------------------------------------------ C11  *)

\* The indices of the pairs whose comparison returned a dictionary, in the
\* order of comb_dict_keys.
RECURSIVE ResultPairsFrom(_)
ResultPairsFrom(i) ==
    IF i > Len(results) THEN << >>
    ELSE (IF results[i].kind = "dict" THEN << i >> ELSE << >>)
             \o ResultPairsFrom(i + 1)

\* Every measure of the written JSON maps to the same list: one entry for
\* each pair that produced a result, in the order of comb_dict_keys.
ListsAligned ==
    history.json_written =>
        /\ tasks = comb_dict_keys
        /\ \A m \in out_json.keys : out_json.lists[m] = ResultPairsFrom(1)
        /\ \A m, n \in out_json.keys :
               Len(out_json.lists[m]) = Len(out_json.lists[n])

\* What the input alone decides: the comparisons fail when two compared
\* bundles have incompatible headers, and no compared bundle's data came
\* from a file that was still being written.
DecidedByInput ==
    /\ (pc = "failed" /\ phase = "compare")
           => \E i \in DOMAIN tasks :
                  headers[tasks[i][1]] # headers[tasks[i][2]]
    /\ phase = "compare"
           => \A i \in DOMAIN results :
                  ~results[i].data_1.torn /\ ~results[i].data_2.torn

(* C11: the output does not depend on how the pool schedules its workers:  *)
(* in every interleaving every measure of the output JSON maps to a list   *)
(* of the same length, its i-th entry belonging to the same pair, the      *)
(* pairs in the order of comb_dict_keys with the skipped pairs removed;    *)
(* and whether that output is produced, and from which data, is decided by *)
(* the input and not by the interleaving.  (Stated for a run that starts   *)
(* without tmp_measures/ and is given pairwise different bundles.)         *)
C11_OutputIndependentOfSchedule ==
    (~history.tmp_before /\ DistinctInputs) =>
        /\ ListsAligned
        /\ DecidedByInput

====
